---- MODULE Spec2Model ----
(***************************************************************************)
(* Model of mhpenta/yttext: the transcript extraction pipeline of package  *)
(* api (GetTranscripts / GetTranscriptsByURL) and the formatters of        *)
(* package formatters.                                                     *)
(*                                                                         *)
(* Go strings are modelled as sequences of one-character strings, so that  *)
(* strings.Contains, strings.Split, strings.Index, strings.ReplaceAll,     *)
(* url.Parse and the cue regular expression work on characters as the      *)
(* code does.                                                              *)
(***************************************************************************)
EXTENDS Integers, Sequences, FiniteSets, TLC

VARIABLES
    pc,            \* position of the extraction call
    call,          \* the call's arguments: [form, arg, lang]
    server,        \* what the remote site answers: [page, caption]
    videoID,       \* fetchTranscripts' videoID
    html,          \* page body returned by fetchVideoHTML
    jsonStr,       \* the fragment extractCaptionsJSON hands to json.Unmarshal
    captionTracks, \* captionsJSON["captionTracks"] as decoded
    targetTrack,   \* index of the selected track in captionTracks, 0 = nil
    xmlData,       \* caption body read from the second response
    result,        \* the returned []Transcript, empty when nil
    err,           \* the returned error, NoErr when nil
    requests,      \* the GET requests issued so far, in order
    steps,         \* the pipeline steps run so far, in order
    fmtr,          \* the formatter value shared by the Format calls
    fmtr0,         \* the formatter as it was constructed
    transcripts,   \* the segment sequence handed to Format
    transcripts0,  \* that sequence as it was before any Format call
    fpc,           \* position of each Format call
    fout           \* the string each Format call returned

vars == <<pc, call, server, videoID, html, jsonStr, captionTracks, targetTrack, xmlData,
          result, err, requests, steps, fmtr, fmtr0, transcripts, transcripts0,
          fpc, fout>>

apiVars == <<pc, call, server, videoID, html, jsonStr, captionTracks, targetTrack,
             xmlData, result, err, requests, steps>>

fmtVars == <<fmtr, fmtr0, transcripts, transcripts0, fpc, fout>>

\* the nil slice and the empty string
Nil == <<>>
NoErr == "no error"

(***************************************************************************)
(* Package strings.                                                        *)
(***************************************************************************)
Min(S) == CHOOSE m \in S : \A n \in S : m <= n
Max(S) == CHOOSE m \in S : \A n \in S : m >= n

\* s[i:] with a 1-based first index
From(s, i) == SubSeq(s, i, Len(s))

\* whether sub occurs in s at 1-based position i
HasAt(s, sub, i) ==
    /\ i >= 1
    /\ i + Len(sub) - 1 <= Len(s)
    /\ SubSeq(s, i, i + Len(sub) - 1) = sub

HasPrefix(s, sub) == HasAt(s, sub, 1)
HasSuffix(s, sub) == HasAt(s, sub, Len(s) - Len(sub) + 1)

\* positions at which the non-empty sub occurs in s
Occurrences(s, sub) ==
    {i \in 1..(Len(s) - Len(sub) + 1) :
        s[i] = sub[1] /\ SubSeq(s, i, i + Len(sub) - 1) = sub}

MinOrZero(S) == IF S = {} THEN 0 ELSE Min(S)
MaxOrZero(S) == IF S = {} THEN 0 ELSE Max(S)

\* first occurrence of sub at or after position i; 0 when there is none
IndexFrom(s, sub, i) == MinOrZero({j \in Occurrences(s, sub) : j >= i})

\* strings.Index, 1-based; 0 when sub does not occur
Index(s, sub) == MinOrZero(Occurrences(s, sub))

\* strings.LastIndex, 1-based; 0 when sub does not occur
LastIndex(s, sub) == MaxOrZero(Occurrences(s, sub))

Contains(s, sub) == Occurrences(s, sub) # {}

\* strings.Count
Count(s, sub) == Cardinality(Occurrences(s, sub))

\* s cut at the occurrence of sub at position i, i = 0 meaning none
CutAt(s, sub, i) ==
    IF i = 0
    THEN [before |-> s, after |-> <<>>, found |-> FALSE]
    ELSE [before |-> SubSeq(s, 1, i - 1),
          after  |-> From(s, i + Len(sub)),
          found  |-> TRUE]

\* strings.Cut: [before, after, found]
Cut(s, sub) == CutAt(s, sub, Index(s, sub))

\* strings.Split(s, sep) for a non-empty sep: the pieces between the
\* non-overlapping occurrences of sep, left to right
RECURSIVE Split(_, _)
SplitCut(c, sep) ==
    IF c.found THEN <<c.before>> \o Split(c.after, sep) ELSE <<c.before>>

Split(s, sep) == SplitCut(Cut(s, sep), sep)

\* strings.ReplaceAll(s, old, new) for a non-empty old
RECURSIVE ReplaceAll(_, _, _)
ReplaceCut(c, old, new) ==
    IF c.found THEN c.before \o new \o ReplaceAll(c.after, old, new)
    ELSE c.before

ReplaceAll(s, old, new) == ReplaceCut(Cut(s, old), old, new)

RECURSIVE Concat(_)
Concat(ss) == IF ss = <<>> THEN <<>> ELSE Head(ss) \o Concat(Tail(ss))

Letters == {"a","b","c","d","e","f","g","h","i","j","k","l","m","n","o","p",
            "q","r","s","t","u","v","w","x","y","z",
            "A","B","C","D","E","F","G","H","I","J","K","L","M","N","O","P",
            "Q","R","S","T","U","V","W","X","Y","Z"}
UpperLetters == {"A","B","C","D","E","F","G","H","I","J","K","L","M","N","O",
                 "P","Q","R","S","T","U","V","W","X","Y","Z"}
Digits == {"0","1","2","3","4","5","6","7","8","9"}

(***************************************************************************)
(* Package net/url, as far as extractVideoID uses it.                      *)
(***************************************************************************)
\* url.getScheme: [scheme, rest, ok]
RECURSIVE getSchemeFrom(_, _)
getSchemeFrom(raw, i) ==
    IF i > Len(raw) THEN [scheme |-> <<>>, rest |-> raw, ok |-> TRUE]
    ELSE IF raw[i] \in Letters THEN getSchemeFrom(raw, i + 1)
    ELSE IF raw[i] \in Digits \cup {"+", "-", "."}
         THEN IF i = 1 THEN [scheme |-> <<>>, rest |-> raw, ok |-> TRUE]
              ELSE getSchemeFrom(raw, i + 1)
    ELSE IF raw[i] = ":"
         THEN IF i = 1 THEN [scheme |-> <<>>, rest |-> <<>>, ok |-> FALSE]
              ELSE [scheme |-> SubSeq(raw, 1, i - 1), rest |-> From(raw, i + 1),
                    ok |-> TRUE]
    ELSE [scheme |-> <<>>, rest |-> raw, ok |-> TRUE]

getScheme(raw) == getSchemeFrom(raw, 1)

\* url.validOptionalPort
validOptionalPort(port) ==
    \/ port = <<>>
    \/ /\ port[1] = ":"
       /\ \A i \in 2..Len(port) : port[i] \in Digits

\* url.parseAuthority / parseHost without userinfo and IP literals, i the
\* position of the last colon: the host keeps its port, a port that is not
\* numeric is an error
parseHostPort(authority, i) ==
    IF i # 0 /\ ~validOptionalPort(From(authority, i))
    THEN [Host |-> <<>>, ok |-> FALSE]
    ELSE [Host |-> authority, ok |-> TRUE]

parseAuthority(authority) ==
    parseHostPort(authority, LastIndex(authority, <<":">>))

URLError == [ok |-> FALSE, Scheme |-> <<>>, Host |-> <<>>, Path |-> <<>>,
             RawQuery |-> <<>>, Fragment |-> <<>>]

\* the URL once its authority is parsed
parseWithHost(scheme, auth, path, rawQuery, frag) ==
    IF ~auth.ok THEN URLError
    ELSE [ok |-> TRUE, Scheme |-> scheme, Host |-> auth.Host, Path |-> path,
          RawQuery |-> rawQuery, Fragment |-> frag]

\* rest is //authority[/path], a is what follows the // cut at the first /
parseAfterSlashes(scheme, a, rawQuery, frag) ==
    parseWithHost(scheme, parseAuthority(a.before),
                  IF a.found THEN <<"/">> \o a.after ELSE <<>>, rawQuery, frag)

\* url.parse from the opaque / relative / authority decision on
parseRest(scheme, rest, rawQuery, frag) ==
    IF ~HasPrefix(rest, <<"/">>) /\ scheme # <<>>
    THEN [ok |-> TRUE, Scheme |-> scheme, Host |-> <<>>, Path |-> <<>>,
          RawQuery |-> rawQuery, Fragment |-> frag]
    ELSE IF ~HasPrefix(rest, <<"/">>)
              /\ Contains(Cut(rest, <<"/">>).before, <<":">>)
    THEN URLError
    ELSE IF HasPrefix(rest, <<"/", "/">>)
              /\ (scheme # <<>> \/ ~HasPrefix(rest, <<"/", "/", "/">>))
    THEN parseAfterSlashes(scheme, Cut(From(rest, 3), <<"/">>), rawQuery, frag)
    ELSE [ok |-> TRUE, Scheme |-> scheme, Host |-> <<>>, Path |-> rest,
          RawQuery |-> rawQuery, Fragment |-> frag]

\* rest and RawQuery: a lone trailing ? is dropped, else rest is cut at
\* the first ?
splitQuery(scheme, rest, frag) ==
    IF HasSuffix(rest, <<"?">>) /\ Count(rest, <<"?">>) = 1
    THEN parseRest(scheme, SubSeq(rest, 1, Len(rest) - 1), <<>>, frag)
    ELSE parseRest(scheme, Cut(rest, <<"?">>).before, Cut(rest, <<"?">>).after, frag)

parseScheme(sch, frag) ==
    IF ~sch.ok THEN URLError ELSE splitQuery(sch.scheme, sch.rest, frag)

\* url.parse(u, false) of the part before the fragment: a control
\* character is an error
parseNoFragment(f) ==
    IF \E i \in 1..Len(f.before) : f.before[i] \in {"\n", "\t", "\r"}
    THEN URLError
    ELSE parseScheme(getScheme(f.before), f.after)

\* url.Parse: [ok, Scheme, Host, Path, RawQuery, Fragment]
url_Parse(rawURL) == parseNoFragment(Cut(rawURL, <<"#">>))

\* url.QueryUnescape for strings without percent escapes: '+' is a space
QueryUnescape(s) == [i \in 1..Len(s) |-> IF s[i] = "+" THEN " " ELSE s[i]]

\* url.ParseQuery followed by Values.Get(key): the value of the first
\* well-formed pair whose key is key, the empty string when there is none
RECURSIVE QueryGet(_, _)
queryKeyValue(kv, rest, key) ==
    IF QueryUnescape(kv.before) = key THEN QueryUnescape(kv.after)
    ELSE QueryGet(rest, key)

queryPair(c, key) ==
    IF Contains(c.before, <<";">>) \/ c.before = <<>> THEN QueryGet(c.after, key)
    ELSE queryKeyValue(Cut(c.before, <<"=">>), c.after, key)

QueryGet(query, key) ==
    IF query = <<>> THEN <<>> ELSE queryPair(Cut(query, <<"&">>), key)

(***************************************************************************)
(* Package api: errors, by the message the code builds them with.          *)
(***************************************************************************)
ErrInvalidURL      == "invalid URL"
ErrNoVideoID       == "could not extract video ID from URL"
ErrCreateRequest   == "failed to create request"
ErrFetchPage       == "failed to fetch video page"
ErrPageStatus      == "video not found or not accessible"
ErrReadPage        == "failed to read video page"
ErrTooManyRequests == "too many requests"
ErrUnavailable     == "video unavailable"
ErrDisabled        == "transcripts disabled for this video"
ErrExtractJSON     == "failed to extract captions JSON"
ErrParseJSON       == "failed to parse captions JSON"
ErrNoTranscript    == "no transcript available for this video"
ErrNoTracks        == "no caption tracks found"
ErrNoSuitable      == "no suitable caption track found"
ErrNoTrackURL      == "failed to extract caption track URL"
ErrFetchXML        == "failed to fetch transcript XML"
ErrXMLStatus       == "failed to fetch transcript"
ErrReadXML         == "failed to read transcript data"
ErrNoText          == "no transcript text found in XML"
ErrNoEntries       == "failed to parse any transcript entries"

\* the spec's InvalidURL kind: both failures of identifier extraction
InvalidURL == {ErrInvalidURL, ErrNoVideoID}

Str_youtu_be        == <<"y","o","u","t","u",".","b","e">>
Str_www_youtube_com == <<"w","w","w",".","y","o","u","t","u","b","e",".","c","o","m">>
Str_youtube_com     == <<"y","o","u","t","u","b","e",".","c","o","m">>
Str_watch_url       == <<"h","t","t","p","s",":","/","/","w","w","w",".","y","o","u","t","u","b","e",".","c","o","m","/","w","a","t","c","h","?","v","=">>

\* lines 62-69: the identifier of a URL that parsed, v its v parameter
videoIDFromQuery(u, v) ==
    IF u.Host \in {Str_www_youtube_com, Str_youtube_com} /\ v # <<>>
    THEN [id |-> v, err |-> NoErr]
    ELSE [id |-> <<>>, err |-> ErrNoVideoID]

\* lines 57-69
videoIDFromURL(u) ==
    IF ~u.ok THEN [id |-> <<>>, err |-> ErrInvalidURL]
    ELSE videoIDFromQuery(u, QueryGet(u.RawQuery, <<"v">>))

\* lines 53-54
lastPart(parts) == [id |-> parts[Len(parts)], err |-> NoErr]

\* extractVideoID: [id, err]
extractVideoID(videoURL) ==
    IF Contains(videoURL, Str_youtu_be)
    THEN lastPart(Split(videoURL, <<"/">>))
    ELSE videoIDFromURL(url_Parse(videoURL))

(***************************************************************************)
(* Package encoding/json, as far as extractCaptionsJSON uses it: a decoder *)
(* of objects, arrays, strings (with the escapes \" \\ \/), numbers and    *)
(* the literals true, false, null.  A decoded value is a record            *)
(* [t |-> kind, v |-> content]; an object's content is the sequence of its *)
(* members [k, v] in source order.                                         *)
(***************************************************************************)
JSONSpace == {" ", "\n", "\t", "\r"}

RECURSIVE skipWS(_, _)
skipWS(s, i) ==
    IF i <= Len(s) /\ s[i] \in JSONSpace THEN skipWS(s, i + 1) ELSE i

JSONFail == [ok |-> FALSE, val |-> [t |-> "null", v |-> <<>>], next |-> 0]

\* the characters of a string literal whose opening quote is before i
RECURSIVE scanString(_, _, _)
scanString(s, i, acc) ==
    IF i > Len(s) THEN JSONFail
    ELSE IF s[i] = "\""
         THEN [ok |-> TRUE, val |-> [t |-> "string", v |-> acc], next |-> i + 1]
    ELSE IF s[i] = "\\"
         THEN IF i + 1 <= Len(s) /\ s[i + 1] \in {"\"", "\\", "/"}
              THEN scanString(s, i + 2, Append(acc, s[i + 1]))
              ELSE JSONFail
    ELSE IF s[i] \in {"\n", "\t", "\r"} THEN JSONFail
    ELSE scanString(s, i + 1, Append(acc, s[i]))

RECURSIVE scanDigits(_, _)
scanDigits(s, i) ==
    IF i <= Len(s) /\ s[i] \in Digits THEN scanDigits(s, i + 1) ELSE i

JSONOk(kind, content, next) ==
    [ok |-> TRUE, val |-> [t |-> kind, v |-> content], next |-> next]

\* a number literal starting at i: -? int frac?, its digits from i1 to
\* i2 - 1 and its fraction, if any, to i3 - 1
numberEnd(s, i, i2, i3) ==
    IF i3 = i2 + 1 THEN JSONFail ELSE JSONOk("number", SubSeq(s, i, i3 - 1), i3)

numberFrac(s, i, i1, i2) ==
    IF i2 = i1 THEN JSONFail
    ELSE IF s[i1] = "0" /\ i2 > i1 + 1 THEN JSONFail
    ELSE IF i2 <= Len(s) /\ s[i2] = "." THEN numberEnd(s, i, i2, scanDigits(s, i2 + 1))
    ELSE JSONOk("number", SubSeq(s, i, i2 - 1), i2)

numberInt(s, i, i1) == numberFrac(s, i, i1, scanDigits(s, i1))

scanNumber(s, i) == numberInt(s, i, IF s[i] = "-" THEN i + 1 ELSE i)

scanLiteral(s, i, word, kind) ==
    IF HasAt(s, word, i) THEN JSONOk(kind, <<>>, i + Len(word)) ELSE JSONFail

RECURSIVE parseValue(_, _)
RECURSIVE parseElements(_, _, _)
RECURSIVE parseMembers(_, _, _)

\* after an element: ] ends the array acc, a comma continues it
elementsNext(s, j, acc) ==
    IF j > Len(s) THEN JSONFail
    ELSE IF s[j] = "]" THEN JSONOk("array", acc, j + 1)
    ELSE IF s[j] = "," THEN parseElements(s, j + 1, acc)
    ELSE JSONFail

elementsAfter(s, e, acc) ==
    IF ~e.ok THEN JSONFail
    ELSE elementsNext(s, skipWS(s, e.next), Append(acc, e.val))

\* the elements of an array, the next one expected at i
parseElements(s, i, acc) == elementsAfter(s, parseValue(s, i), acc)

\* after a member: } ends the object acc, a comma continues it
membersNext(s, j, acc) ==
    IF j > Len(s) THEN JSONFail
    ELSE IF s[j] = "}" THEN JSONOk("object", acc, j + 1)
    ELSE IF s[j] = "," THEN parseMembers(s, j + 1, acc)
    ELSE JSONFail

memberAfter(s, key, e, acc) ==
    IF ~e.ok THEN JSONFail
    ELSE membersNext(s, skipWS(s, e.next), Append(acc, [k |-> key, v |-> e.val]))

memberValue(s, key, ci, acc) ==
    IF ci <= Len(s) /\ s[ci] = ":"
    THEN memberAfter(s, key, parseValue(s, ci + 1), acc)
    ELSE JSONFail

memberColon(s, k, acc) ==
    IF ~k.ok THEN JSONFail ELSE memberValue(s, k.val.v, skipWS(s, k.next), acc)

memberKey(s, ki, acc) ==
    IF ki <= Len(s) /\ s[ki] = "\"" THEN memberColon(s, scanString(s, ki + 1, <<>>), acc)
    ELSE JSONFail

\* the members of an object, the next key expected at or after i
parseMembers(s, i, acc) == memberKey(s, skipWS(s, i), acc)

\* the object that opens at i, j the first position after the brace that
\* is not white space
objectAt(s, i, j) ==
    IF j <= Len(s) /\ s[j] = "}" THEN JSONOk("object", <<>>, j + 1)
    ELSE parseMembers(s, i + 1, <<>>)

arrayAt(s, i, j) ==
    IF j <= Len(s) /\ s[j] = "]" THEN JSONOk("array", <<>>, j + 1)
    ELSE parseElements(s, i + 1, <<>>)

valueAt(s, i) ==
    IF i > Len(s) THEN JSONFail
    ELSE IF s[i] = "{" THEN objectAt(s, i, skipWS(s, i + 1))
    ELSE IF s[i] = "[" THEN arrayAt(s, i, skipWS(s, i + 1))
    ELSE IF s[i] = "\"" THEN scanString(s, i + 1, <<>>)
    ELSE IF s[i] \in Digits \cup {"-"} THEN scanNumber(s, i)
    ELSE IF s[i] = "t" THEN scanLiteral(s, i, <<"t","r","u","e">>, "true")
    ELSE IF s[i] = "f" THEN scanLiteral(s, i, <<"f","a","l","s","e">>, "false")
    ELSE IF s[i] = "n" THEN scanLiteral(s, i, <<"n","u","l","l">>, "null")
    ELSE JSONFail

\* the value that starts at or after i0
parseValue(s, i0) == valueAt(s, skipWS(s, i0))

\* whether object o has a member named key
HasKey(o, key) == \E i \in 1..Len(o.v) : o.v[i].k = key

\* the value of object o's member key: the last one, as the decoder keeps it
Member(o, key) ==
    o.v[Max({i \in 1..Len(o.v) : o.v[i].k = key})].v

EmptyObject == [t |-> "object", v |-> <<>>]

unmarshalValue(data, r) ==
    IF ~r.ok \/ skipWS(data, r.next) <= Len(data)
    THEN [ok |-> FALSE, val |-> EmptyObject]
    ELSE IF r.val.t = "null" THEN [ok |-> TRUE, val |-> EmptyObject]
    ELSE IF r.val.t # "object" THEN [ok |-> FALSE, val |-> EmptyObject]
    ELSE [ok |-> TRUE, val |-> r.val]

\* json.Unmarshal(data, &result) with result a nil map[string]interface{}:
\* [ok, val]; null leaves the map nil, any other non-object is an error
json_Unmarshal(data) == unmarshalValue(data, parseValue(data, 1))

(***************************************************************************)
(* extractCaptionsJSON.                                                    *)
(***************************************************************************)
Str_captions      == <<"\"","c","a","p","t","i","o","n","s","\"",":">>
Str_videoDetails  == <<",","\"","v","i","d","e","o","D","e","t","a","i","l","s">>
Str_recaptcha     == <<"c","l","a","s","s","=","\"","g","-","r","e","c","a","p","t","c","h","a","\"">>
Str_playability   == <<"\"","p","l","a","y","a","b","i","l","i","t","y","S","t","a","t","u","s","\"",":">>
Str_renderer      == <<"p","l","a","y","e","r","C","a","p","t","i","o","n","s","T","r","a","c","k","l","i","s","t","R","e","n","d","e","r","e","r">>
Str_captionTracks == <<"c","a","p","t","i","o","n","T","r","a","c","k","s">>
Str_languageCode  == <<"l","a","n","g","u","a","g","e","C","o","d","e">>
Str_baseUrl       == <<"b","a","s","e","U","r","l">>
Str_en            == <<"e","n">>

JSONNull == [t |-> "null", v |-> <<>>]

\* a bug: the availability marker looked for before the CAPTCHA marker
MarkerAbsentSwapped(body) ==
    IF ~Contains(body, Str_playability) THEN ErrUnavailable
    ELSE IF Contains(body, Str_recaptcha) THEN ErrTooManyRequests
    ELSE ErrDisabled

\* the error extractCaptionsJSON returns when the captions marker is absent,
\* lines 175-183
MarkerAbsentError(body) ==
    IF Contains(body, Str_recaptcha) THEN ErrTooManyRequests
    ELSE IF ~Contains(body, Str_playability) THEN ErrUnavailable
    ELSE ErrDisabled

captionsError(e, js) == [err |-> e, jsonStr |-> js, captionTracks |-> JSONNull]

\* lines 202-206, r the playerCaptionsTracklistRenderer member
captionsFromRenderer(str, r) ==
    IF r.t # "object" THEN captionsError(ErrDisabled, str)
    ELSE IF ~HasKey(r, Str_captionTracks) THEN captionsError(ErrNoTranscript, str)
    ELSE [err |-> NoErr, jsonStr |-> str,
          captionTracks |-> Member(r, Str_captionTracks)]

\* lines 193-200, res what json.Unmarshal made of str
captionsFromResult(str, res) ==
    IF ~res.ok THEN captionsError(ErrParseJSON, str)
    ELSE IF ~HasKey(res.val, Str_renderer) THEN captionsError(ErrDisabled, str)
    ELSE captionsFromRenderer(str, Member(res.val, Str_renderer))

\* lines 192-193
captionsFromStr(str) == captionsFromResult(str, json_Unmarshal(str))

\* lines 185-190
captionsFromPart(jsonPart, endIndex) ==
    IF endIndex = 0 THEN captionsError(ErrExtractJSON, Nil)
    ELSE captionsFromStr(ReplaceAll(SubSeq(jsonPart, 1, endIndex - 1), <<"\n">>, <<>>))

\* lines 173-184
captionsFromParts(body, parts) ==
    IF Len(parts) <= 1 THEN captionsError(MarkerAbsentError(body), Nil)
    ELSE captionsFromPart(parts[2], Index(parts[2], Str_videoDetails))

\* extractCaptionsJSON: [err, jsonStr, captionTracks]; jsonStr is Nil when
\* json.Unmarshal was not reached, captionTracks is
\* captionsJSON["captionTracks"] when err is NoErr
extractCaptionsJSON(body) == captionsFromParts(body, Split(body, Str_captions))

(***************************************************************************)
(* Track selection, fetchTranscripts lines 84-122.                         *)
(***************************************************************************)
\* track.(map[string]interface{}) and trackMap[key].(string) both succeed
HasString(track, key) ==
    /\ track.t = "object"
    /\ HasKey(track, key)
    /\ Member(track, key).t = "string"

\* the loop of lines 94-109: the index of the first track whose
\* languageCode is the string languageCode, 0 when the loop ends without one
RECURSIVE MatchLoop(_, _, _)
MatchLoop(tracks, languageCode, i) ==
    IF i > Len(tracks) THEN 0
    ELSE IF ~HasString(tracks[i], Str_languageCode)
         THEN MatchLoop(tracks, languageCode, i + 1)
    ELSE IF Member(tracks[i], Str_languageCode).v = languageCode THEN i
    ELSE MatchLoop(tracks, languageCode, i + 1)

\* a bug: no fallback to the first track when no language matches
fallbackNone(tracks, match) == match

\* lines 111-113, match the track the loop found
fallbackTrack(tracks, match) ==
    IF match # 0 THEN match
    ELSE IF Len(tracks) > 0 /\ tracks[1].t = "object" THEN 1
    ELSE 0

\* lines 89-113: the index of targetTrack in tracks, 0 for a nil targetTrack
SelectTrack(tracks, languageCode) ==
    fallbackTrack(tracks,
        MatchLoop(tracks, IF languageCode = <<>> THEN Str_en ELSE languageCode, 1))

(***************************************************************************)
(* textRegex and strconv.ParseFloat.                                       *)
(***************************************************************************)
Str_text_start == <<"<","t","e","x","t"," ","s","t","a","r","t","=","\"">>
Str_dur        == <<"\""," ","d","u","r","=","\"">>
Str_text_end   == <<"<","/","t","e","x","t",">">>

\* the end of the run of [0-9.] characters that starts at i
RECURSIVE scanNumeric(_, _)
scanNumeric(s, i) ==
    IF i <= Len(s) /\ s[i] \in Digits \cup {"."} THEN scanNumeric(s, i + 1) ELSE i

NoMatch == [ok |-> FALSE, start |-> <<>>, dur |-> <<>>, text |-> <<>>, end |-> 0]

\* >(.*?)</text> : g the first > after the attributes, c the first </text>
\* after it; no character from a to c may be a newline
matchText(s, start, dur, a, g, c) ==
    IF g = 0 \/ c = 0 THEN NoMatch
    ELSE IF \E j \in a..(c - 1) : s[j] = "\n" THEN NoMatch
    ELSE [ok |-> TRUE, start |-> start, dur |-> dur,
          text |-> SubSeq(s, g + 1, c - 1), end |-> c + Len(Str_text_end)]

matchTag(s, start, dur, a, g) ==
    matchText(s, start, dur, a, g, IndexFrom(s, Str_text_end, g + 1))

\* dur="([0-9.]+)" : the duration runs from p2 to e2 - 1
matchDur(s, start, p2, e2) ==
    IF e2 = p2 \/ ~(e2 <= Len(s) /\ s[e2] = "\"") THEN NoMatch
    ELSE matchTag(s, start, SubSeq(s, p2, e2 - 1), e2 + 1,
                  IndexFrom(s, <<">">>, e2 + 1))

\* start="([0-9.]+)" : the start runs from p1 to e1 - 1
matchStart(s, p1, e1) ==
    IF e1 = p1 \/ ~HasAt(s, Str_dur, e1) THEN NoMatch
    ELSE matchDur(s, SubSeq(s, p1, e1 - 1), e1 + Len(Str_dur),
                  scanNumeric(s, e1 + Len(Str_dur)))

\* the match of textRegex that begins at position i of s, if there is one:
\* <text start="([0-9.]+)" dur="([0-9.]+)".*?>(.*?)</text>, where . is any
\* character but newline and the lazy .*? stop at the first > and the first
\* </text> that let the rest match
MatchAt(s, i) ==
    IF ~HasAt(s, Str_text_start, i) THEN NoMatch
    ELSE matchStart(s, i + Len(Str_text_start),
                    scanNumeric(s, i + Len(Str_text_start)))

\* textRegex.FindAllStringSubmatch(s, -1) from position i on: the leftmost
\* match, then the matches of what follows it
RECURSIVE FindAllFrom(_, _)
findNext(s, j, m) ==
    IF m.ok THEN <<m>> \o FindAllFrom(s, m.end) ELSE FindAllFrom(s, j + 1)

findAt(s, j) == IF j = 0 THEN <<>> ELSE findNext(s, j, MatchAt(s, j))

FindAllFrom(s, i) == findAt(s, IndexFrom(s, Str_text_start, i))

FindAllStringSubmatch(s) == FindAllFrom(s, 1)

DigitValue(d) ==
    CASE d = "0" -> 0 [] d = "1" -> 1 [] d = "2" -> 2 [] d = "3" -> 3
      [] d = "4" -> 4 [] d = "5" -> 5 [] d = "6" -> 6 [] d = "7" -> 7
      [] d = "8" -> 8 [] d = "9" -> 9

RECURSIVE IntOf(_)
IntOf(ds) ==
    IF ds = <<>> THEN 0
    ELSE 10 * IntOf(SubSeq(ds, 1, Len(ds) - 1)) + DigitValue(ds[Len(ds)])

RECURSIVE Pow10(_)
Pow10(n) == IF n = 0 THEN 1 ELSE 10 * Pow10(n - 1)

RECURSIVE TrimZeros(_)
TrimZeros(ds) ==
    IF ds # <<>> /\ ds[Len(ds)] = "0" THEN TrimZeros(SubSeq(ds, 1, Len(ds) - 1))
    ELSE ds

\* the decimal number with integer digits int and fraction digits frac
Decimal(int, frac) == [num |-> IntOf(int \o frac), den |-> Pow10(Len(frac))]

\* strconv.ParseFloat(s, 64) for s of [0-9.] characters, short enough to be
\* represented exactly: [ok, val], val the decimal number num / den with den
\* the least power of ten; s must hold a digit and at most one point
ParseFloat(s) ==
    IF Count(s, <<".">>) > 1 \/ Len(s) = 0 \/ s = <<".">>
    THEN [ok |-> FALSE, val |-> [num |-> 0, den |-> 1]]
    ELSE [ok |-> TRUE,
          val |-> Decimal(Cut(s, <<".">>).before, TrimZeros(Cut(s, <<".">>).after))]

\* a <= b for two decimal numbers
LessEq(a, b) == a.num * b.den <= b.num * a.den

(***************************************************************************)
(* parseTranscriptXML.                                                     *)
(***************************************************************************)
Str_amp  == <<"&","a","m","p",";">>
Str_lt   == <<"&","l","t",";">>
Str_gt   == <<"&","g","t",";">>
Str_quot == <<"&","q","u","o","t",";">>
Str_apos == <<"&","#","3","9",";">>

\* lines 235-240: the five replacements, one after the other
Unescape(text) ==
    ReplaceAll(
      ReplaceAll(
        ReplaceAll(
          ReplaceAll(
            ReplaceAll(text, Str_amp, <<"&">>),
            Str_lt, <<"<">>),
          Str_gt, <<">">>),
        Str_quot, <<"\"">>),
      Str_apos, <<"'">>)

\* a bug: an unparsable cue throws away the segments before it
parseMatchReset(match, startTime, duration, acc) ==
    IF ~startTime.ok \/ ~duration.ok THEN <<>>
    ELSE Append(acc, [Text      |-> Unescape(match.text),
                      Duration  |-> duration.val,
                      Offset    |-> startTime.val,
                      StartTime |-> startTime.val])

\* a bug: segments collected in the reverse order
parseMatchPrepend(match, startTime, duration, acc) ==
    IF ~startTime.ok \/ ~duration.ok THEN acc
    ELSE <<[Text      |-> Unescape(match.text),
            Duration  |-> duration.val,
            Offset    |-> startTime.val,
            StartTime |-> startTime.val]>> \o acc

\* lines 224-249 for one match: acc with its segment appended, acc itself
\* when its start or duration does not parse
parseMatch(match, startTime, duration, acc) ==
    IF ~startTime.ok THEN acc
    ELSE IF ~duration.ok THEN acc
    ELSE Append(acc, [Text      |-> Unescape(match.text),
                      Duration  |-> duration.val,
                      Offset    |-> startTime.val,
                      StartTime |-> startTime.val])

\* the loop of lines 219-250 over matches[i..]
RECURSIVE ParseLoop(_, _, _)
ParseLoop(matches, i, acc) ==
    IF i > Len(matches) THEN acc
    ELSE ParseLoop(matches, i + 1,
            parseMatch(matches[i], ParseFloat(matches[i].start),
                       ParseFloat(matches[i].dur), acc))

\* lines 252-256
parsedResult(parsed) ==
    IF Len(parsed) = 0 THEN [transcripts |-> Nil, err |-> ErrNoEntries]
    ELSE [transcripts |-> parsed, err |-> NoErr]

\* lines 212-250
parseMatches(matches) ==
    IF Len(matches) = 0 THEN [transcripts |-> Nil, err |-> ErrNoText]
    ELSE parsedResult(ParseLoop(matches, 1, <<>>))

\* parseTranscriptXML: [transcripts, err]
parseTranscriptXML(data) == parseMatches(FindAllStringSubmatch(data))

(***************************************************************************)
(* The extraction call, one action per step of GetTranscripts /            *)
(* GetTranscriptsByURL / fetchTranscripts.  A response of the remote site  *)
(* is [kind, status, body]: kind "error" is a transport failure,           *)
(* "unreadable" a body whose read fails, "ok" a readable body.  A request  *)
(* is one call of the http client (Do at line 152, Get at line 124) with   *)
(* whatever redirects the client follows inside it.                        *)
(***************************************************************************)
StatusOK == 200

Finish(e, r) ==
    /\ pc' = "done"
    /\ err' = e
    /\ result' = r

\* the step goes on to the step at label next
Continue(next) ==
    /\ pc' = next
    /\ UNCHANGED <<err, result>>

\* lines 43-47, x what extractVideoID returned
ExtractDone(x) ==
    IF x.err # NoErr
    THEN Finish(x.err, Nil) /\ UNCHANGED videoID
    ELSE videoID' = x.id /\ Continue("fetchPage")

\* GetTranscriptsByURL, lines 42-48
GetTranscriptsByURL ==
    /\ pc = "start"
    /\ call.form = "url"
    /\ steps' = Append(steps, "extract")
    /\ ExtractDone(extractVideoID(call.arg))
    /\ UNCHANGED <<call, server, html, jsonStr, captionTracks, targetTrack,
                   xmlData, requests>>
    /\ UNCHANGED fmtVars

\* GetTranscripts, lines 37-39
GetTranscripts ==
    /\ pc = "start"
    /\ call.form = "id"
    /\ videoID' = call.arg
    /\ pc' = "fetchPage"
    /\ UNCHANGED <<call, server, html, jsonStr, captionTracks, targetTrack,
                   xmlData, result, err, requests, steps>>
    /\ UNCHANGED fmtVars

\* lines 145-167 and 74-77: the request for urlPath, parsed as u, and the
\* answer resp to it
PageRequest(urlPath, u, resp) ==
    IF ~u.ok
    THEN Finish(ErrCreateRequest, Nil) /\ UNCHANGED <<html, requests>>
    ELSE /\ requests' = Append(requests, [step |-> "page", url |-> urlPath])
         /\ IF resp.kind = "error"
            THEN Finish(ErrFetchPage, Nil) /\ UNCHANGED html
            ELSE IF resp.status # StatusOK
            THEN Finish(ErrPageStatus, Nil) /\ UNCHANGED html
            ELSE IF resp.kind = "unreadable"
            THEN Finish(ErrReadPage, Nil) /\ UNCHANGED html
            ELSE html' = resp.body /\ Continue("locate")

PageRequestFor(urlPath) == PageRequest(urlPath, url_Parse(urlPath), server.page)

\* fetchVideoHTML, lines 143-168, and the check of lines 74-77
FetchVideoHTML ==
    /\ pc = "fetchPage"
    /\ steps' = Append(steps, "page")
    /\ PageRequestFor(Str_watch_url \o videoID)
    /\ UNCHANGED <<call, server, videoID, jsonStr, captionTracks, targetTrack,
                   xmlData>>
    /\ UNCHANGED fmtVars

\* lines 79-82, x what extractCaptionsJSON returned
LocateDone(x) ==
    /\ jsonStr' = x.jsonStr
    /\ IF x.err # NoErr
       THEN Finish(x.err, Nil) /\ UNCHANGED captionTracks
       ELSE captionTracks' = x.captionTracks /\ Continue("select")

\* the call of extractCaptionsJSON, lines 79-82
LocateCaptions ==
    /\ pc = "locate"
    /\ steps' = Append(steps, "locate")
    /\ LocateDone(extractCaptionsJSON(html))
    /\ UNCHANGED <<call, server, videoID, html, targetTrack, xmlData, requests>>
    /\ UNCHANGED fmtVars

\* lines 115-122, t the index of targetTrack
SelectDone(t) ==
    /\ targetTrack' = t
    /\ IF t = 0 THEN Finish(ErrNoSuitable, Nil)
       ELSE IF ~HasString(captionTracks.v[t], Str_baseUrl)
       THEN Finish(ErrNoTrackURL, Nil)
       ELSE Continue("fetchCaption")

\* track selection, lines 84-122
SelectCaptionTrack ==
    /\ pc = "select"
    /\ steps' = Append(steps, "select")
    /\ IF captionTracks.t # "array"
       THEN Finish(ErrNoTracks, Nil) /\ UNCHANGED targetTrack
       ELSE IF Len(captionTracks.v) = 0
       THEN Finish(ErrNoTracks, Nil) /\ UNCHANGED targetTrack
       ELSE SelectDone(SelectTrack(captionTracks.v, call.lang))
    /\ UNCHANGED <<call, server, videoID, html, jsonStr, captionTracks, xmlData,
                   requests>>
    /\ UNCHANGED fmtVars

\* a bug: the caption request is sent a second time when the first answer
\* is no 200
CaptionRequestRetry(baseURL, u, resp) ==
    IF ~u.ok
    THEN Finish(ErrFetchXML, Nil) /\ UNCHANGED <<xmlData, requests>>
    ELSE IF resp.kind = "error"
    THEN /\ requests' = Append(requests, [step |-> "caption", url |-> baseURL])
         /\ Finish(ErrFetchXML, Nil) /\ UNCHANGED xmlData
    ELSE IF resp.status # StatusOK
    THEN /\ requests' = Append(Append(requests, [step |-> "caption", url |-> baseURL]),
                               [step |-> "caption", url |-> baseURL])
         /\ Finish(ErrXMLStatus, Nil) /\ UNCHANGED xmlData
    ELSE IF resp.kind = "unreadable"
    THEN /\ requests' = Append(requests, [step |-> "caption", url |-> baseURL])
         /\ Finish(ErrReadXML, Nil) /\ UNCHANGED xmlData
    ELSE /\ requests' = Append(requests, [step |-> "caption", url |-> baseURL])
         /\ xmlData' = resp.body /\ Continue("parse")

\* lines 124-137: the request for baseURL, parsed as u, and the answer resp
CaptionRequest(baseURL, u, resp) ==
    IF ~u.ok
    THEN Finish(ErrFetchXML, Nil) /\ UNCHANGED <<xmlData, requests>>
    ELSE /\ requests' = Append(requests, [step |-> "caption", url |-> baseURL])
         /\ IF resp.kind = "error"
            THEN Finish(ErrFetchXML, Nil) /\ UNCHANGED xmlData
            ELSE IF resp.status # StatusOK
            THEN Finish(ErrXMLStatus, Nil) /\ UNCHANGED xmlData
            ELSE IF resp.kind = "unreadable"
            THEN Finish(ErrReadXML, Nil) /\ UNCHANGED xmlData
            ELSE xmlData' = resp.body /\ Continue("parse")

CaptionRequestFor(baseURL) ==
    CaptionRequest(baseURL, url_Parse(baseURL), server.caption)

\* the caption-body request, lines 124-137
FetchCaptionBody ==
    /\ pc = "fetchCaption"
    /\ steps' = Append(steps, "caption")
    /\ CaptionRequestFor(Member(captionTracks.v[targetTrack], Str_baseUrl).v)
    /\ UNCHANGED <<call, server, videoID, html, jsonStr, captionTracks,
                   targetTrack>>
    /\ UNCHANGED fmtVars

\* line 139, x what parseTranscriptXML returned
ParseDone(x) == Finish(x.err, x.transcripts)

\* the call of parseTranscriptXML, line 139
ParseCaptionBody ==
    /\ pc = "parse"
    /\ steps' = Append(steps, "parse")
    /\ ParseDone(parseTranscriptXML(xmlData))
    /\ UNCHANGED <<call, server, videoID, html, jsonStr, captionTracks,
                   targetTrack, xmlData, requests>>
    /\ UNCHANGED fmtVars

(***************************************************************************)
(* Package formatters.  A formatter is a record of its kind and its fields *)
(* (the fields a kind does not have stay at their zero values); a time is  *)
(* the decimal number [num, den] the parser produces.                     *)
(***************************************************************************)
defaultLineLength == 80

Quote(s) == <<"\"">> \o s \o <<"\"">>

\* ss[1] sep ss[2] sep ... ss[n]
RECURSIVE Join(_, _)
Join(ss, sep) ==
    IF ss = <<>> THEN <<>>
    ELSE IF Len(ss) = 1 THEN ss[1]
    ELSE ss[1] \o sep \o Join(Tail(ss), sep)

DigitChar(i) == <<"0","1","2","3","4","5","6","7","8","9">>[i + 1]

\* fmt's %d of a natural number
RECURSIVE Itoa(_)
Itoa(n) == IF n < 10 THEN <<DigitChar(n)>> ELSE Itoa(n \div 10) \o <<DigitChar(n % 10)>>

\* fmt's %0wd, given the digits
RECURSIVE Pad(_, _)
Pad(ds, w) == IF Len(ds) < w THEN Pad(<<"0">> \o ds, w) ELSE ds

\* int(seconds) of a time that is not negative
Whole(x) == x.num \div x.den

\* num / den with den the least power of ten
RECURSIVE Reduce(_, _)
Reduce(num, den) ==
    IF den > 1 /\ num % 10 = 0 THEN Reduce(num \div 10, den \div 10)
    ELSE [num |-> num, den |-> den]

\* startTime + t.Duration, line 110
Plus(a, b) == Reduce(a.num * b.den + b.num * a.den, a.den * b.den)

timeHMS(h, m, sec) ==
    IF h > 0
    THEN Itoa(h) \o <<":">> \o Pad(Itoa(m), 2) \o <<":">> \o Pad(Itoa(sec), 2)
    ELSE Itoa(m) \o <<":">> \o Pad(Itoa(sec), 2)

timeOfWhole(w) == timeHMS(w \div 3600, (w \div 60) % 60, w % 60)

\* formatTime: H:MM:SS, or M:SS when there are no hours
formatTime(seconds) == timeOfWhole(Whole(seconds))

srtTimeOf(w, ms) ==
    Pad(Itoa(w \div 3600), 2) \o <<":">> \o Pad(Itoa((w \div 60) % 60), 2)
    \o <<":">> \o Pad(Itoa(w % 60), 2) \o <<",">> \o Pad(Itoa(ms), 3)

\* formatSRTTime: HH:MM:SS,mmm
formatSRTTime(seconds) ==
    srtTimeOf(Whole(seconds), ((seconds.num % seconds.den) * 1000) \div seconds.den)

\* TextFormatter.Format, the loop of lines 26-29 over transcripts[i..]
RECURSIVE TextLoop(_, _, _)
TextLoop(ts, i, sb) ==
    IF i > Len(ts) THEN sb
    ELSE TextLoop(ts, i + 1,
            sb \o <<"[">> \o formatTime(ts[i].StartTime) \o <<"]", " ">>
               \o ts[i].Text \o <<"\n">>)

TextOutput(ts) == TextLoop(ts, 1, <<>>)

Str_arrow == <<" ","-","-",">"," ">>

\* SRTFormatter.Format, the loop of lines 108-118 over transcripts[i..]
RECURSIVE SRTLoop(_, _, _)
SRTLoop(ts, i, sb) ==
    IF i > Len(ts) THEN sb
    ELSE SRTLoop(ts, i + 1,
            sb \o Itoa(i) \o <<"\n">>
               \o formatSRTTime(ts[i].StartTime) \o Str_arrow
               \o formatSRTTime(Plus(ts[i].StartTime, ts[i].Duration)) \o <<"\n">>
               \o ts[i].Text \o <<"\n", "\n">>)

SRTOutput(ts) == SRTLoop(ts, 1, <<>>)

\* encoding/json's text of one character of a string, with its HTML escaping
jsonChar(c) ==
    CASE c = "\"" -> <<"\\", "\"">>
      [] c = "\\" -> <<"\\", "\\">>
      [] c = "\n" -> <<"\\", "n">>
      [] c = "\r" -> <<"\\", "r">>
      [] c = "\t" -> <<"\\", "t">>
      [] c = "<"  -> <<"\\", "u", "0", "0", "3", "c">>
      [] c = ">"  -> <<"\\", "u", "0", "0", "3", "e">>
      [] c = "&"  -> <<"\\", "u", "0", "0", "2", "6">>
      [] OTHER    -> <<c>>

jsonString(str) == Quote(Concat([i \in 1..Len(str) |-> jsonChar(str[i])]))

\* encoding/json's text of a float64 that is a short decimal number
jsonFloat(x) ==
    IF x.den = 1 THEN Itoa(x.num)
    ELSE Itoa(Whole(x)) \o <<".">> \o Pad(Itoa(x.num % x.den), Len(Itoa(x.den)) - 1)

\* the members of a Transcript under its json tags, lines 17-22 of package api
jsonMembers(t) ==
    << <<Quote(<<"t","e","x","t">>), jsonString(t.Text)>>,
       <<Quote(<<"d","u","r","a","t","i","o","n">>), jsonFloat(t.Duration)>>,
       <<Quote(<<"o","f","f","s","e","t">>), jsonFloat(t.Offset)>>,
       <<Quote(<<"s","t","a","r","t">>), jsonFloat(t.StartTime)>> >>

\* json.Marshal of one Transcript
compactObject(ms) ==
    <<"{">> \o Join([i \in 1..Len(ms) |-> ms[i][1] \o <<":">> \o ms[i][2]], <<",">>)
    \o <<"}">>

\* json.MarshalIndent of one Transcript that is an element of the list
indentObject(ms) ==
    <<"{", "\n">>
    \o Join([i \in 1..Len(ms) |->
                <<" "," "," "," ">> \o ms[i][1] \o <<":", " ">> \o ms[i][2]],
            <<",", "\n">>)
    \o <<"\n", " ", " ", "}">>

\* json.Marshal(transcripts), line 94; the empty sequence is the nil slice
Marshal(ts) ==
    IF ts = <<>> THEN <<"n","u","l","l">>
    ELSE <<"[">>
         \o Join([i \in 1..Len(ts) |-> compactObject(jsonMembers(ts[i]))], <<",">>)
         \o <<"]">>

\* json.MarshalIndent(transcripts, "", "  "), line 92
MarshalIndent(ts) ==
    IF ts = <<>> THEN <<"n","u","l","l">>
    ELSE <<"[", "\n", " ", " ">>
         \o Join([i \in 1..Len(ts) |-> indentObject(jsonMembers(ts[i]))],
                 <<",", "\n", " ", " ">>)
         \o <<"\n", "]">>

\* JSONFormatter.Format, lines 88-100
JSONOutput(f, ts) == IF f.Pretty THEN MarshalIndent(ts) ELSE Marshal(ts)

\* unicode.IsSpace on the characters of the model
Spaces == {" ", "\n", "\t", "\r"}

RECURSIVE TrimLeft(_)
TrimLeft(str) ==
    IF str # <<>> /\ str[1] \in Spaces THEN TrimLeft(Tail(str)) ELSE str

RECURSIVE TrimRight(_)
TrimRight(str) ==
    IF str # <<>> /\ str[Len(str)] \in Spaces
    THEN TrimRight(SubSeq(str, 1, Len(str) - 1))
    ELSE str

\* strings.TrimSpace
TrimSpace(str) == TrimRight(TrimLeft(str))

\* strings.Fields: the maximal runs of characters that are no spaces
RECURSIVE FieldsLoop(_, _, _, _)
FieldsLoop(str, i, word, words) ==
    IF i > Len(str) THEN IF word = <<>> THEN words ELSE Append(words, word)
    ELSE IF str[i] \in Spaces
         THEN FieldsLoop(str, i + 1, <<>>,
                         IF word = <<>> THEN words ELSE Append(words, word))
    ELSE FieldsLoop(str, i + 1, Append(word, str[i]), words)

Fields(str) == FieldsLoop(str, 1, <<>>, <<>>)

\* lines 153-155, trimmed the previous text without the space around it
endsWithPunctuation(trimmed) ==
    \/ HasSuffix(trimmed, <<".">>)
    \/ HasSuffix(trimmed, <<"!">>)
    \/ HasSuffix(trimmed, <<"?">>)

\* shouldStartNewParagraph, lines 147-162
shouldStartNewParagraph(prevText, currText) ==
    \/ /\ endsWithPunctuation(TrimSpace(prevText))
       /\ Len(currText) > 0
       /\ currText[1] \in UpperLetters
    \/ Contains(prevText, <<"[">>)
    \/ Contains(currText, <<"[">>)

\* lines 65-68 and 178-181: line with text appended, a space between them
\* unless one is already there
appendText(line, text) ==
    IF ~HasSuffix(line, <<" ">>) /\ ~HasPrefix(text, <<" ">>)
    THEN line \o <<" ">> \o text
    ELSE line \o text

\* groupIntoParagraphs, the loop of lines 173-183 from transcripts[i] on and
\* lines 185-189
RECURSIVE ParagraphLoop(_, _, _, _)
ParagraphLoop(ts, i, currentParagraph, paragraphs) ==
    IF i > Len(ts)
    THEN IF Len(currentParagraph) > 0 THEN Append(paragraphs, currentParagraph)
         ELSE paragraphs
    ELSE IF shouldStartNewParagraph(ts[i - 1].Text, ts[i].Text)
         THEN ParagraphLoop(ts, i + 1, ts[i].Text, Append(paragraphs, currentParagraph))
    ELSE ParagraphLoop(ts, i + 1, appendText(currentParagraph, ts[i].Text), paragraphs)

\* groupIntoParagraphs, lines 165-190
groupIntoParagraphs(ts) ==
    IF Len(ts) = 0 THEN <<>> ELSE ParagraphLoop(ts, 2, ts[1].Text, <<>>)

\* a bug: the line is broken as soon as the word would fill it
RECURSIVE WrapLoopEager(_, _, _, _, _)
WrapLoopEager(words, i, currentLine, sb, lineLength) ==
    IF i > Len(words) THEN sb \o currentLine
    ELSE IF Len(currentLine) + 1 + Len(words[i]) >= lineLength
         THEN WrapLoopEager(words, i + 1, words[i], sb \o currentLine \o <<"\n">>,
                            lineLength)
    ELSE WrapLoopEager(words, i + 1, currentLine \o <<" ">> \o words[i], sb, lineLength)

\* wrapText, the loop of lines 207-214 from words[i] on and line 216
RECURSIVE WrapLoop(_, _, _, _, _)
WrapLoop(words, i, currentLine, sb, lineLength) ==
    IF i > Len(words) THEN sb \o currentLine
    ELSE IF Len(currentLine) + 1 + Len(words[i]) > lineLength
         THEN WrapLoop(words, i + 1, words[i], sb \o currentLine \o <<"\n">>, lineLength)
    ELSE WrapLoop(words, i + 1, currentLine \o <<" ">> \o words[i], sb, lineLength)

wrapWords(words, lineLength) ==
    IF Len(words) = 0 THEN <<>>
    ELSE WrapLoop(words, 2, words[1], <<>>, lineLength)

\* wrapText, lines 193-219
wrapText(text, lineLength) ==
    IF lineLength <= 0 THEN text ELSE wrapWords(Fields(text), lineLength)

\* ReadableFormatter.Format, the loop of lines 51-56 from paragraphs[i] on
RECURSIVE GroupedLoop(_, _, _, _)
GroupedLoop(paragraphs, i, sb, lineLength) ==
    IF i > Len(paragraphs) THEN sb
    ELSE GroupedLoop(paragraphs, i + 1,
            (IF i > 1 THEN sb \o <<"\n", "\n">> ELSE sb)
                \o wrapText(paragraphs[i], lineLength),
            lineLength)

\* ReadableFormatter.Format, the loop of lines 59-72 from transcripts[i] on
\* and lines 74-76
RECURSIVE LineLoop(_, _, _, _, _)
LineLoop(ts, i, currentLine, sb, lineLength) ==
    IF i > Len(ts)
    THEN IF Len(currentLine) > 0 THEN sb \o wrapText(currentLine, lineLength) ELSE sb
    ELSE IF i > 1 /\ shouldStartNewParagraph(ts[i - 1].Text, ts[i].Text)
         THEN LineLoop(ts, i + 1, ts[i].Text,
                       sb \o wrapText(currentLine, lineLength) \o <<"\n", "\n">>,
                       lineLength)
    ELSE IF Len(currentLine) > 0
         THEN LineLoop(ts, i + 1, appendText(currentLine, ts[i].Text), sb, lineLength)
    ELSE LineLoop(ts, i + 1, ts[i].Text, sb, lineLength)

\* ReadableFormatter.Format, lines 47-79, with the fields f has by then
ReadableOutput(f, ts) ==
    IF f.GroupByParagraph
    THEN GroupedLoop(groupIntoParagraphs(ts), 1, <<>>, f.MaxLineLength)
    ELSE LineLoop(ts, 1, <<>>, <<>>, f.MaxLineLength)

\* the formatter values
TextFormatter == [kind |-> "text", MaxLineLength |-> 0, GroupByParagraph |-> FALSE,
                  Pretty |-> FALSE]
SRTFormatter == [kind |-> "srt", MaxLineLength |-> 0, GroupByParagraph |-> FALSE,
                 Pretty |-> FALSE]
JSONFormatter(pretty) ==
    [kind |-> "json", MaxLineLength |-> 0, GroupByParagraph |-> FALSE,
     Pretty |-> pretty]
ReadableFormatter(maxLineLength, groupByParagraph) ==
    [kind |-> "readable", MaxLineLength |-> maxLineLength,
     GroupByParagraph |-> groupByParagraph, Pretty |-> FALSE]

\* NewFormatter, lines 222-238: [ok, f]
NewFormatter(formatType) ==
    CASE formatType = "text"     -> [ok |-> TRUE, f |-> TextFormatter]
      [] formatType = "json"     -> [ok |-> TRUE, f |-> JSONFormatter(TRUE)]
      [] formatType = "srt"      -> [ok |-> TRUE, f |-> SRTFormatter]
      [] formatType = "readable" -> [ok |-> TRUE, f |-> ReadableFormatter(80, TRUE)]
      [] OTHER                   -> [ok |-> FALSE, f |-> TextFormatter]

(***************************************************************************)
(* Format calls.  Each of the calls in Calls runs Format on the one        *)
(* formatter fmtr with the one slice transcripts; fpc[g] is where call g   *)
(* is and fout[g] the string it returned.  A read or a write of a field of *)
(* the formatter is a step of its own, so that calls interleave between    *)
(* them as goroutines do.                                                  *)
(***************************************************************************)
Calls == {1, 2}

Return(g, out) ==
    /\ fpc' = [fpc EXCEPT ![g] = "done"]
    /\ fout' = [fout EXCEPT ![g] = out]
    /\ UNCHANGED <<fmtr, fmtr0, transcripts, transcripts0>>

\* (*TextFormatter).Format, lines 24-31
TextFormat(g) ==
    /\ fpc[g] = "start"
    /\ fmtr.kind = "text"
    /\ Return(g, TextOutput(transcripts))
    /\ UNCHANGED apiVars

\* (*JSONFormatter).Format, lines 88-100
JSONFormat(g) ==
    /\ fpc[g] = "start"
    /\ fmtr.kind = "json"
    /\ Return(g, JSONOutput(fmtr, transcripts))
    /\ UNCHANGED apiVars

\* (*SRTFormatter).Format, lines 106-120
SRTFormat(g) ==
    /\ fpc[g] = "start"
    /\ fmtr.kind = "srt"
    /\ Return(g, SRTOutput(transcripts))
    /\ UNCHANGED apiVars

\* (*ReadableFormatter).Format, the read of line 43
ReadableCheck(g) ==
    /\ fpc[g] = "start"
    /\ fmtr.kind = "readable"
    /\ fpc' = [fpc EXCEPT ![g] = IF fmtr.MaxLineLength <= 0 THEN "default" ELSE "build"]
    /\ UNCHANGED <<fmtr, fmtr0, transcripts, transcripts0, fout>>
    /\ UNCHANGED apiVars

\* (*ReadableFormatter).Format, the write of line 44
ReadableDefault(g) ==
    /\ fpc[g] = "default"
    /\ fmtr' = [fmtr EXCEPT !.MaxLineLength = defaultLineLength]
    /\ fpc' = [fpc EXCEPT ![g] = "build"]
    /\ UNCHANGED <<fmtr0, transcripts, transcripts0, fout>>
    /\ UNCHANGED apiVars

\* (*ReadableFormatter).Format, lines 47-79
ReadableBuild(g) ==
    /\ fpc[g] = "build"
    /\ Return(g, ReadableOutput(fmtr, transcripts))
    /\ UNCHANGED apiVars

(***************************************************************************)
(* Bounds of the inputs.                                                   *)
(***************************************************************************)
MaxTracks == 2   \* tracks in a captionTracks list
MaxPieces == 4   \* pieces a marker page is put together from
MaxCues   == 3   \* pieces a caption body is put together from
MaxText   == 4   \* characters of a payload text before escaping
MaxSegs   == 2   \* segments in a list handed to Format

\* all sequences over alphabet A of length at most n
SeqsUpTo(A, n) == UNION {[1..k -> A] : k \in 0..n}

(***************************************************************************)
(* Inputs: the URLs and identifiers the caller passes.                     *)
(***************************************************************************)
Str_https       == <<"h","t","t","p","s",":","/","/">>
Str_m_youtube   == <<"m",".","y","o","u","t","u","b","e",".","c","o","m">>
Str_example_com == <<"e","x","a","m","p","l","e",".","c","o","m">>
Str_abc         == <<"a","b","c">>
Str_fr          == <<"f","r">>

URLHosts == {Str_youtube_com, Str_www_youtube_com, Str_m_youtube, Str_youtu_be,
             Str_example_com}
URLPaths == {<<>>, <<"/">>, <<"/","w","a","t","c","h">>, <<"/","a","b","c">>,
             <<"/","a","/","x","y","z">>}
URLQueries == {<<>>, <<"?","v","=","a","b","c">>, <<"?","v","=">>,
               <<"?","t","=","1">>, <<"?","x","=","1","&","v","=","a","b","c">>,
               <<"?","v","=","a","b","c","&","f","e","a","t","u","r","e","=","y","o","u","t","u",".","b","e">>}
URLFragments == {<<>>, <<"#","t">>, <<"#","a","/","b">>}

\* strings that are no absolute http URL
OtherURLs == {<<>>, <<":","f","o","o">>, <<"1","a",":","b">>, Str_abc,
              Str_youtube_com \o <<"/","w","a","t","c","h","?","v","=","a","b","c">>,
              Str_https \o Str_youtube_com \o <<":","x","/","w","a","t","c","h","?","v","=","a","b","c">>,
              Str_https \o Str_www_youtube_com \o <<":","4","4","3","/","w","a","t","c","h","?","v","=","a","b","c">>}

URLs == {Str_https \o h \o p \o q \o f :
            h \in URLHosts, p \in URLPaths, q \in URLQueries, f \in URLFragments}
        \cup OtherURLs

VideoIDs == {Str_abc, <<"a","\n","b">>}
Langs == {<<>>, Str_en, Str_fr}

(***************************************************************************)
(* Inputs: the pages and caption bodies the remote site answers with.      *)
(***************************************************************************)
\* the baseUrl the i-th track of a generated list carries
TrackURL(i) == <<"h","t","t","p",":","/","/","t","/">> \o <<DigitChar(i)>>

LangFields == {[k |-> "absent", v |-> <<>>], [k |-> "number", v |-> <<>>],
               [k |-> "string", v |-> Str_en], [k |-> "string", v |-> Str_fr]}

\* shapes of a captionTracks element: not an object, or an object with or
\* without languageCode and baseUrl, either of which may be a number
TrackKinds ==
    {[obj |-> FALSE, lang |-> [k |-> "absent", v |-> <<>>], base |-> "absent"]}
    \cup {[obj |-> TRUE, lang |-> l, base |-> b] :
             l \in LangFields, b \in {"absent", "string"}}
    \cup {[obj |-> TRUE, lang |-> [k |-> "string", v |-> Str_en], base |-> "number"]}

\* the JSON text of the i-th element, of shape kind
TrackJSON(kind, i) ==
    LET base == IF kind.base = "absent" THEN <<>>
                ELSE IF kind.base = "number" THEN <<Quote(Str_baseUrl) \o <<":","1">>>>
                ELSE <<Quote(Str_baseUrl) \o <<":">> \o Quote(TrackURL(i))>>
        lang == IF kind.lang.k = "absent" THEN <<>>
                ELSE IF kind.lang.k = "number"
                     THEN <<Quote(Str_languageCode) \o <<":","7">>>>
                ELSE <<Quote(Str_languageCode) \o <<":">> \o Quote(kind.lang.v)>>
    IN  IF ~kind.obj THEN Quote(<<"x">>)
        ELSE <<"{">> \o Join(base \o lang, <<",">>) \o <<"}">>

TrackListJSON(kinds) ==
    <<"[">> \o Join([i \in 1..Len(kinds) |-> TrackJSON(kinds[i], i)], <<",">>) \o <<"]">>

\* {"playerCaptionsTracklistRenderer":<inner>}
RendererJSON(inner) ==
    <<"{">> \o Quote(Str_renderer) \o <<":">> \o inner \o <<"}">>

\* {"playerCaptionsTracklistRenderer":{"captionTracks":<tracks>}}
TracksJSON(tracks) ==
    RendererJSON(<<"{">> \o Quote(Str_captionTracks) \o <<":">> \o tracks \o <<"}">>)

Str_null == <<"n","u","l","l">>

\* fragments that hold no usable track list
OddJSON ==
    {Str_null, <<"[","]">>, <<"{","}">>, <<"{">>, <<"7">>,
     RendererJSON(<<"1">>), RendererJSON(Str_null), RendererJSON(<<"{","}">>),
     TracksJSON(Str_null), TracksJSON(<<"{","}">>), TracksJSON(<<"[","]">>),
     TracksJSON(Quote(<<"x">>)),
     <<"{">> \o Quote(Str_renderer) \o <<":","1",",">> \o Quote(Str_renderer)
         \o <<":","{">> \o Quote(Str_captionTracks) \o <<":","[","]","}","}">>}

\* a watch page around a captions fragment
PageAround(json) ==
    <<"<","h","t","m","l",">">> \o Str_playability \o <<"{","}",",">>
    \o Str_captions \o json \o Str_videoDetails \o <<"\"",":","{","}">>
    \o <<"<","/","h","t","m","l",">">>

EnTrack == [obj |-> TRUE, lang |-> [k |-> "string", v |-> Str_en], base |-> "string"]

DefaultJSON == TracksJSON(TrackListJSON(<<EnTrack>>))

\* pages whose fragment is a track list of at most MaxTracks elements
TrackPages ==
    {PageAround(TracksJSON(TrackListJSON(ks))) : ks \in SeqsUpTo(TrackKinds, MaxTracks)}

OddPages == {PageAround(j) : j \in OddJSON}

\* pages put together from the markers the locator looks for
PagePieces == {Str_captions, Str_videoDetails, Str_recaptcha, Str_playability,
               <<"\n">>, DefaultJSON}

MarkerPages == {Concat(ps) : ps \in SeqsUpTo(PagePieces, MaxPieces)}

\* <text start="S" dur="D">payload</text>
Cue(start, dur, payload) ==
    Str_text_start \o start \o Str_dur \o dur \o <<"\"", ">">> \o payload
    \o Str_text_end

\* pieces of a caption body: cues whose numbers parse, cues whose start or
\* duration does not, text the regular expression does not match
CuePieces ==
    {Cue(st, d, <<"a">>) : st \in {<<"0">>, <<"1",".","5">>, <<"1",".","2",".","3">>},
                           d \in {<<"1">>, <<".">>}}
    \cup {Cue(<<"3">>, <<"2",".">>, <<"b","&","a","m","p",";">>),
          Cue(<<"x">>, <<"1">>, <<"c">>),
          <<"\n">>}

CueBodies == {Concat(cs) : cs \in SeqsUpTo(CuePieces, MaxCues)}

\* the escaped form of a text: each of & < > " ' replaced by its entity
Escape(text) ==
    Concat([i \in 1..Len(text) |->
              CASE text[i] = "&"  -> Str_amp
                [] text[i] = "<"  -> Str_lt
                [] text[i] = ">"  -> Str_gt
                [] text[i] = "\"" -> Str_quot
                [] text[i] = "'"  -> Str_apos
                [] OTHER          -> <<text[i]>>])

\* payload texts before escaping
Texts ==
    SeqsUpTo({"&", "l", "t", ";", "<"}, MaxText)
    \cup SeqsUpTo({"&", "<", ">", "\"", "'", "a"}, 2)

\* caption bodies of one cue whose payload is an escaped text
EscapedBody(text) == Cue(<<"1">>, <<"2">>, Escape(text))

EscapedBodies == {EscapedBody(t) : t \in Texts}

OK(body) == [kind |-> "ok", status |-> StatusOK, body |-> body]

\* answers that are no readable 200 response
Failures == {[kind |-> "error", status |-> 0, body |-> <<>>],
             [kind |-> "ok", status |-> 404, body |-> <<>>],
             [kind |-> "ok", status |-> 429, body |-> Str_recaptcha],
             [kind |-> "unreadable", status |-> StatusOK, body |-> <<>>]}

DefaultPage    == OK(PageAround(DefaultJSON))
DefaultCaption == OK(Cue(<<"0">>, <<"1">>, <<"a">>) \o Cue(<<"1">>, <<"1">>, <<"b">>))

ByURL(u, l) == [form |-> "url", arg |-> u, lang |-> l]
ByID(id, l) == [form |-> "id", arg |-> id, lang |-> l]

\* the calls and the site's answers that are explored: every URL against the
\* default site, and one identifier against every page and caption answer
Worlds ==
    {[call |-> ByURL(u, Str_en), server |-> [page |-> DefaultPage, caption |-> DefaultCaption]] :
        u \in URLs}
    \cup {[call |-> ByID(id, l), server |-> [page |-> DefaultPage, caption |-> DefaultCaption]] :
        id \in VideoIDs, l \in Langs}
    \cup {[call |-> ByID(Str_abc, Str_en), server |-> [page |-> p, caption |-> DefaultCaption]] :
        p \in Failures \cup {OK(b) : b \in MarkerPages \cup OddPages}}
    \cup {[call |-> ByID(Str_abc, l), server |-> [page |-> OK(b), caption |-> DefaultCaption]] :
        b \in TrackPages, l \in Langs}
    \cup {[call |-> ByID(Str_abc, Str_en), server |-> [page |-> DefaultPage, caption |-> c]] :
        c \in Failures \cup {OK(b) : b \in CueBodies \cup EscapedBodies}}

(***************************************************************************)
(* Inputs: the formatters and the segments Format is called with.  The     *)
(* times are multiples of a quarter of a second, which float64 holds and   *)
(* adds exactly.                                                           *)
(***************************************************************************)
FormatTypes == {"text", "json", "srt", "readable", "xml"}

\* the formatters NewFormatter builds, and formatters constructed directly
Formatters ==
    {NewFormatter(t).f : t \in {u \in FormatTypes : NewFormatter(u).ok}}
    \cup {TextFormatter, SRTFormatter}
    \cup {JSONFormatter(p) : p \in BOOLEAN}
    \cup {ReadableFormatter(l, p) : l \in {0 - 1, 0, 2, 3, 5, 7}, p \in BOOLEAN}

FormatTexts == {<<"H","i",".">>, <<"[","x","]">>, <<"a","b"," ","c","d">>,
                <<" ","T","&">>}

FormatStarts == {[num |-> 0, den |-> 1], [num |-> 366125, den |-> 100]}

Segment(text, start) ==
    [Text |-> text, Duration |-> [num |-> 25, den |-> 10], Offset |-> start,
     StartTime |-> start]

Segments == {Segment(t, st) : t \in FormatTexts, st \in FormatStarts}

SegmentLists == SeqsUpTo(Segments, MaxSegs)

(***************************************************************************)
(* The two specifications: one extraction call, and concurrent Format      *)
(* calls on one formatter.                                                 *)
(***************************************************************************)
\* no Format call is under way
FormatIdle ==
    /\ fmtr = TextFormatter
    /\ fmtr0 = TextFormatter
    /\ transcripts = <<>>
    /\ transcripts0 = <<>>
    /\ fpc = [g \in Calls |-> "idle"]
    /\ fout = [g \in Calls |-> <<>>]

\* the extraction call in its initial state, or not under way at all
APIAt(label) ==
    /\ pc = label
    /\ videoID = <<>>
    /\ html = <<>>
    /\ jsonStr = <<>>
    /\ captionTracks = JSONNull
    /\ targetTrack = 0
    /\ xmlData = <<>>
    /\ result = Nil
    /\ err = NoErr
    /\ requests = <<>>
    /\ steps = <<>>

Init ==
    /\ \E w \in Worlds : call = w.call /\ server = w.server
    /\ APIAt("start")
    /\ FormatIdle

Next ==
    \/ GetTranscriptsByURL
    \/ GetTranscripts
    \/ FetchVideoHTML
    \/ LocateCaptions
    \/ SelectCaptionTrack
    \/ FetchCaptionBody
    \/ ParseCaptionBody

Spec == Init /\ [][Next]_vars

InitFormat ==
    /\ call = ByID(Str_abc, Str_en)
    /\ server = [page |-> DefaultPage, caption |-> DefaultCaption]
    /\ APIAt("idle")
    /\ fmtr \in Formatters
    /\ fmtr0 = fmtr
    /\ transcripts \in SegmentLists
    /\ transcripts0 = transcripts
    /\ fpc = [g \in Calls |-> "start"]
    /\ fout = [g \in Calls |-> <<>>]

NextFormat ==
    \E g \in Calls :
        \/ TextFormat(g)
        \/ JSONFormat(g)
        \/ SRTFormat(g)
        \/ ReadableCheck(g)
        \/ ReadableDefault(g)
        \/ ReadableBuild(g)

SpecFormat == InitFormat /\ [][NextFormat]_vars

(***************************************************************************)
(* Properties of the extraction call.                                      *)
(***************************************************************************)
\* the step named name has run
StepRan(name) == \E i \in 1..Len(steps) : steps[i] = name

IsPrefix(a, b) == Len(a) <= Len(b) /\ a = SubSeq(b, 1, Len(a))

\* the steps of a call in their order
Order ==
    IF call.form = "url"
    THEN <<"extract", "page", "locate", "select", "caption", "parse">>
    ELSE <<"page", "locate", "select", "caption", "parse">>

\* what holds of every state of a call: the steps so far are a prefix of the
\* order, a failure has ended the call with no result, and the requests are
\* at most the page request followed by the caption request, the latter only
\* after a 200 page answer and the selection of a track with a baseUrl
C1_State ==
    /\ IsPrefix(steps, Order)
    /\ (err # NoErr => pc = "done" /\ result = Nil)
    /\ Len(requests) <= 2
    /\ \A i \in 1..Len(requests) : requests[i].step = <<"page", "caption">>[i]
    /\ (Len(requests) = 2 =>
          /\ server.page.status = StatusOK
          /\ StepRan("select")
          /\ targetTrack # 0
          /\ HasString(captionTracks.v[targetTrack], Str_baseUrl)
          /\ requests[2].url = Member(captionTracks.v[targetTrack], Str_baseUrl).v)

\* what holds of every step of a call: it starts where no step has failed and
\* the call has not ended, runs at most the next step of the order and issues
\* at most one request
C1_Step ==
    /\ err = NoErr
    /\ pc # "done"
    /\ Len(steps') <= Len(steps) + 1
    /\ Len(requests') <= Len(requests) + 1
    /\ (Len(requests') > Len(requests) => Len(steps') > Len(steps))

\* C1: in one extraction call the steps run in the order extract (URL form
\* only), page, locate, select, caption, parse; the first step that fails ends
\* the call with its error and no result, after which nothing runs; no request
\* is repeated and at most two are issued, the caption request only after the
\* page answered 200 and a track with a baseUrl was selected.
C1_StepOrder == [](C1_State) /\ [][C1_Step]_vars

\* a call that failed in the selection step, after its one request
C1_Witness ==
    /\ pc = "done"
    /\ err = ErrNoTrackURL
    /\ steps = <<"page", "locate", "select">>
    /\ Len(requests) = 1
    /\ result = Nil

\* the URL parses, its host is the canonical one and its v is not empty
CanonicalURL(u) ==
    /\ u.ok
    /\ u.Host \in {Str_youtube_com, Str_www_youtube_com}
    /\ QueryGet(u.RawQuery, <<"v">>) # <<>>

\* the URL parses and its host is the short-link one
ShortLinkURL(u) == u.ok /\ u.Host = Str_youtu_be

\* the text of path after its last slash, the whole of it when it has none
LastSegment(path) == SubSeq(path, LastIndex(path, <<"/">>) + 1, Len(path))

\* C2, as the spec states it: once identifier extraction has run on a URL of
\* host youtube.com or www.youtube.com with a non-empty v parameter, it has
\* succeeded and the identifier is exactly the value of v.
C2_CanonicalReturnsV ==
    (call.form = "url" /\ StepRan("extract") /\ CanonicalURL(url_Parse(call.arg)))
        => /\ err \notin InvalidURL
           /\ videoID = QueryGet(url_Parse(call.arg).RawQuery, <<"v">>)

\* C3, as the spec states it: once identifier extraction has run on a URL of
\* host youtu.be, the identifier is the final segment of the URL's path,
\* without the query string and the fragment.
C3_ShortLinkLastSegment ==
    (call.form = "url" /\ StepRan("extract") /\ ShortLinkURL(url_Parse(call.arg)))
        => /\ err \notin InvalidURL
           /\ videoID = LastSegment(url_Parse(call.arg).Path)

\* the input is a short link with a path segment at its end, or a canonical
\* URL with a v parameter
SupportedURL(u) ==
    \/ ShortLinkURL(u) /\ LastSegment(u.Path) # <<>>
    \/ CanonicalURL(u)

\* C4, as the spec states it: for an input that is neither a short link with
\* a trailing path segment nor a canonical URL with a v parameter, identifier
\* extraction fails with InvalidURL, there is no identifier and no request is
\* ever issued.
C4_OtherShapesInvalid ==
    (call.form = "url" /\ StepRan("extract") /\ ~SupportedURL(url_Parse(call.arg)))
        => /\ err \in InvalidURL
           /\ videoID = <<>>
           /\ requests = <<>>

\* the language the selection looks for
Wanted == IF call.lang = <<>> THEN Str_en ELSE call.lang

\* the elements of the track list whose languageCode is the wanted one
Matching ==
    {i \in 1..Len(captionTracks.v) :
        /\ HasString(captionTracks.v[i], Str_languageCode)
        /\ Member(captionTracks.v[i], Str_languageCode).v = Wanted}

\* the selection step has run on a track list that is not empty
SelectedFromList ==
    /\ StepRan("select")
    /\ captionTracks.t = "array"
    /\ Len(captionTracks.v) > 0

\* the element the selection settled on: the selected track, and the first
\* element when that element is no object and so cannot be a track
SelectedEntry ==
    IF targetTrack = 0 THEN captionTracks.v[1] ELSE captionTracks.v[targetTrack]

SelectionErrors == {ErrNoTracks, ErrNoSuitable, ErrNoTrackURL}

\* C5: after track selection over a non-empty list, if some track has the
\* wanted language code (en for an empty code) then the selected track has it;
\* if none has, the first element is the selected one; and the selection has
\* failed exactly when the selected entry carries no baseUrl string, never
\* because the language is absent.
C5_TrackSelection ==
    SelectedFromList =>
        /\ (Matching # {} => targetTrack \in Matching)
        /\ (Matching = {} => SelectedEntry = captionTracks.v[1])
        /\ (Matching = {} /\ captionTracks.v[1].t = "object" => targetTrack = 1)
        /\ (err \in SelectionErrors <=> ~HasString(SelectedEntry, Str_baseUrl))

\* the wanted language is absent from a list of two tracks and the selection
\* went on with the first
C5_Witness ==
    /\ SelectedFromList
    /\ Len(captionTracks.v) = 2
    /\ Matching = {}
    /\ HasString(captionTracks.v[2], Str_languageCode)
    /\ targetTrack = 1
    /\ err = NoErr
    /\ StepRan("caption")

\* the matches of textRegex in the caption body
BodyMatches == FindAllStringSubmatch(xmlData)

\* both numbers of match m parse
Parsable(m) == ParseFloat(m.start).ok /\ ParseFloat(m.dur).ok

\* the segment a parsable match stands for
SegmentOf(m) ==
    [Text      |-> Unescape(m.text),
     Duration  |-> ParseFloat(m.dur).val,
     Offset    |-> ParseFloat(m.start).val,
     StartTime |-> ParseFloat(m.start).val]

\* the segments of the parsable ones among ms, in their order
SegmentsOf(ms) ==
    [k \in 1..Len(SelectSeq(ms, Parsable)) |-> SegmentOf(SelectSeq(ms, Parsable)[k])]

\* C6: once the parse step has run, the segments returned are exactly those
\* of the matched cues whose start and duration both parse, one each, in the
\* order of the cues in the body; the parse fails only when there is none.
C6_CueParsing ==
    (pc = "done" /\ StepRan("parse")) =>
        /\ result = SegmentsOf(BodyMatches)
        /\ (err = NoErr <=> result # <<>>)

\* a body of three matched cues, the middle one unparsable, gave the segments
\* of the two others
C6_Witness ==
    /\ pc = "done"
    /\ StepRan("parse")
    /\ Len(BodyMatches) = 3
    /\ Parsable(BodyMatches[1])
    /\ ~Parsable(BodyMatches[2])
    /\ Parsable(BodyMatches[3])
    /\ Len(result) = 2
    /\ result[2].Text = Unescape(BodyMatches[3].text)

\* C7, as the spec states it: for every text, a cue whose payload is the
\* escaped form of the text is returned with exactly that text.
C7_UnescapeRoundTrip ==
    (pc = "done" /\ StepRan("parse")) =>
        \A t \in Texts :
            xmlData = EscapedBody(t) => err = NoErr /\ result[1].Text = t

\* the starts of consecutive segments do not decrease
NonDecreasing(segs) ==
    \A i \in 1..(Len(segs) - 1) : LessEq(segs[i].StartTime, segs[i + 1].StartTime)

\* C8, as the spec states it: the segments a successful call returns are in
\* the order of non-decreasing start, whatever the caption body.
C8_SortedByStart ==
    (pc = "done" /\ err = NoErr) => NonDecreasing(result)

\* C8, amended: the segments a successful call returns are in the order of
\* their cues in the body, so their starts are non-decreasing exactly when
\* the starts of the parsable cues are non-decreasing in the body.
C8_BodyOrder ==
    (pc = "done" /\ err = NoErr) =>
        /\ Len(result) = Len(SelectSeq(BodyMatches, Parsable))
        /\ \A i \in 1..Len(result) :
              result[i].StartTime = ParseFloat(SelectSeq(BodyMatches, Parsable)[i].start).val
        /\ (NonDecreasing(result) <=> NonDecreasing(SegmentsOf(BodyMatches)))

\* a successful call whose second segment starts before its first
C8_Witness ==
    /\ pc = "done"
    /\ err = NoErr
    /\ Len(result) >= 2
    /\ ~LessEq(result[1].StartTime, result[2].StartTime)

\* C9: once the locate step has run on a page without the captions marker,
\* the call has failed with RateLimited if the CAPTCHA marker is in the page,
\* else with VideoUnavailable if the playabilityStatus marker is not, else
\* with CaptionsDisabled; and the page request is the only request.
C9_MarkerAbsent ==
    (StepRan("locate") /\ ~Contains(html, Str_captions)) =>
        /\ pc = "done"
        /\ result = Nil
        /\ err = (IF Contains(html, Str_recaptcha) THEN ErrTooManyRequests
                  ELSE IF ~Contains(html, Str_playability) THEN ErrUnavailable
                  ELSE ErrDisabled)
        /\ Len(requests) = 1
        /\ requests[1].step = "page"

\* a page with the CAPTCHA marker and without the two others
C9_Witness ==
    /\ StepRan("locate")
    /\ ~Contains(html, Str_captions)
    /\ Contains(html, Str_recaptcha)
    /\ ~Contains(html, Str_playability)
    /\ err = ErrTooManyRequests
    /\ Len(requests) = 1

\* where the text behind the first captions marker of the page begins
AfterCaptions == Index(html, Str_captions) + Len(Str_captions)

\* the first captions marker of the page is followed by the sibling marker
FragmentDelimited ==
    /\ Contains(html, Str_captions)
    /\ IndexFrom(html, Str_videoDetails, AfterCaptions) # 0

\* the text from the first captions marker to the next sibling marker,
\* without its newlines
DelimitedFragment ==
    ReplaceAll(SubSeq(html, AfterCaptions,
                      IndexFrom(html, Str_videoDetails, AfterCaptions) - 1),
               <<"\n">>, <<>>)

\* C12, as the spec states it: once the locate step has run on a page whose
\* first captions marker is followed by the sibling marker ,"videoDetails,
\* the fragment handed to the JSON parser is the text between the two with
\* the newlines removed, however often the captions marker occurs again.
C12_FragmentBetweenMarkers ==
    (StepRan("locate") /\ FragmentDelimited) =>
        /\ err # ErrExtractJSON
        /\ jsonStr = DelimitedFragment

(***************************************************************************)
(* Properties of the Format calls.                                         *)
(***************************************************************************)
\* C10, as the spec states it: Format calls change neither the segments they
\* are given nor any field of the formatter they are called on.
C10_FormatFrame ==
    /\ transcripts = transcripts0
    /\ fmtr = fmtr0


\* the paragraphs a grouping readable formatter wraps
Paragraphs == groupIntoParagraphs(transcripts)

\* call g has returned the output of a readable formatter that groups by
\* paragraph, for segments that make at least one paragraph
WrappedBy(g) ==
    /\ fpc[g] = "done"
    /\ fmtr.kind = "readable"
    /\ fmtr.GroupByParagraph
    /\ Paragraphs # <<>>

\* the words of the lines ls, line after line
RECURSIVE WordsOfLines(_)
WordsOfLines(ls) ==
    IF ls = <<>> THEN <<>> ELSE Fields(Head(ls)) \o WordsOfLines(Tail(ls))

\* line ws (its words) is filled as far as lineLength allows: each word but
\* the first fits behind the words before it with one space
FitsLine(ws, lineLength) ==
    \A j \in 2..Len(ws) : Len(Join(SubSeq(ws, 1, j), <<" ">>)) <= lineLength

\* ls are the lines of a wrapping of the words ws to lineLength
WrappedLines(ls, ws, lineLength) ==
    /\ WordsOfLines(ls) = ws
    /\ \A k \in 1..Len(ls) :
          /\ Fields(ls[k]) # <<>>
          /\ ls[k] = Join(Fields(ls[k]), <<" ">>)
          /\ FitsLine(Fields(ls[k]), lineLength)
          /\ (Len(ls[k]) > lineLength => Len(Fields(ls[k])) = 1)
          /\ (k > 1 => Len(ls[k - 1]) + 1 + Len(Fields(ls[k])[1]) > lineLength)

\* out is the wrapping of the words ws to lineLength
WrappedText(out, ws, lineLength) ==
    IF ws = <<>> THEN out = <<>>
    ELSE WrappedLines(Split(out, <<"\n">>), ws, lineLength)

\* the outputs of the paragraphs, from the string a call returned
WrappedParagraphs(out) == Split(out, <<"\n", "\n">>)

\* C11: for every paragraph and every line length L > 0 the lines of the
\* wrapped paragraph hold its words in their order, each word whole, the words
\* of a line separated by one space; a line starts with a word exactly when
\* that word, behind one space, would have made the line before it longer
\* than L; so a line is longer than L only if it is one single word.
C11_WrapText ==
    \A g \in Calls :
        WrappedBy(g) =>
            /\ fmtr.MaxLineLength > 0
            /\ Len(WrappedParagraphs(fout[g])) = Len(Paragraphs)
            /\ \A p \in 1..Len(Paragraphs) :
                  WrappedText(WrappedParagraphs(fout[g])[p], Fields(Paragraphs[p]),
                              fmtr.MaxLineLength)

\* a paragraph of three words wrapped to two lines, the first of two words
C11_Witness ==
    /\ WrappedBy(1)
    /\ fmtr.MaxLineLength = 7
    /\ Len(Paragraphs) = 1
    /\ Len(Fields(Paragraphs[1])) = 3
    /\ Len(Split(fout[1], <<"\n">>)) = 2
    /\ Len(Fields(Split(fout[1], <<"\n">>)[1])) = 2

====
